---- MODULE Spec2Model ----
(***************************************************************************)
(* State-machine model of the scheduling engine of script-server:          *)
(* src/scheduling/schedule_service.py (ScheduleService, restore_jobs) and  *)
(* src/scheduling/scheduling_job.py (SchedulingJob, from_dict).            *)
(*                                                                         *)
(* Every handler (create_job, _execute_job run by a timer, the constructor *)
(* __init__) is one atomic action.  The variable `trace` holds the calls   *)
(* the last handler made, in the order the code makes them, and `call`     *)
(* holds its name, argument and return value.  Under SpecThreads the       *)
(* handlers run on threads instead and take one step per call they make.   *)
(***************************************************************************)
EXTENDS Integers, Sequences, FiniteSets, TLC

VARIABLES
    now,        \* the clock read by date_utils.is_past / get_next_time:
                \* now = n is an instant after time n and before time n + 1
                \* (start, end and timer times are whole, a reading never is)
    cfg,        \* task definitions served by ConfigService, per script name
    store,      \* the schedules folder: path -> file content
    timers,     \* Scheduler: the armed one-shot timers (job, job_path, time)
    seen,       \* IdGenerator: the ids it was seeded with or has issued
    running,    \* ExecutionService: number of running executions per script
    disp,       \* history: executions started for the job holding each id
    issuedLog,  \* history: every id create_job has returned, oldest first
    engineStart,\* history: Len(issuedLog) when the running engine was built
    seeded,     \* history: ids readable in the folder when the engine was built
    seededBad,  \* history: those of them held by files that failed to parse
    skipped,    \* history: ids of the jobs whose arming step the running
                \* engine skipped because the execution limit was reached
    call,       \* the last handler: [op, req, ret]
    trace,      \* the calls the last handler made, in order
    threads     \* the handlers in progress on the threads of the Scheduler
                \* and of the callers of create_job: [op, job, path, pc];
                \* empty where handlers are run as one step

vars == <<now, cfg, store, timers, seen, running, disp, issuedLog,
          engineStart, seeded, seededBad, skipped, call, trace, threads>>

----------------------------------------------------------------------------
(* Bounds of the model *)

MaxTime == 2
MaxId == 2
MaxRunning == 2
MaxDispatch == 2
MaxCreates == 2

TaskSeq == <<"a", "b">>
Tasks == {TaskSeq[k] : k \in 1..Len(TaskSeq)}
Ids == 1..MaxId
Time == 0..MaxTime
JunkPath == <<"zz", 0>>
Paths == (Tasks \X Ids) \cup {JunkPath}

----------------------------------------------------------------------------
(* Data *)

NoSchedule ==
    [repeatable |-> FALSE, start_datetime |-> 0, period |-> 1,
     end_option |-> "none", end_arg |-> 0, executions_count |-> 0,
     autorun |-> FALSE]

NoJob == [id |-> 0, script_name |-> "", schedule |-> NoSchedule,
          execution_limit |-> 0]

NoPath == <<"", 0>>

NoReq == [user |-> FALSE, script_name |-> "", schedule |-> NoSchedule,
          execution_limit |-> 0]

NoFile == [kind |-> "none", id |-> 0, data |-> NoJob]

SchedulingJob(id, schedule_config, script_name, execution_limit) ==
    [id |-> id, script_name |-> script_name, schedule |-> schedule_config,
     execution_limit |-> execution_limit]

as_serializable_dict(job) ==
    [id |-> job.id, script_name |-> job.script_name,
     schedule |-> job.schedule, execution_limit |-> job.execution_limit]

from_dict(job_as_dict) ==
    SchedulingJob(job_as_dict.id, job_as_dict.schedule,
                  job_as_dict.script_name, job_as_dict.execution_limit)

Event(type, job, path, at, run, why) ==
    [type |-> type, job |-> job, path |-> path, at |-> at, run |-> run,
     why |-> why]

Log(st, e) == [st EXCEPT !.trace = Append(@, e)]

----------------------------------------------------------------------------
(* Collaborators *)

is_past(t, clock) == t <= clock

get_next_time(schedule, clock) ==
    IF ~schedule.repeatable THEN schedule.start_datetime
    ELSE IF clock < schedule.start_datetime THEN schedule.start_datetime
    ELSE schedule.start_datetime
         + (((clock - schedule.start_datetime) \div schedule.period) + 1)
           * schedule.period


ConfigModels ==
    {[schedulable |-> TRUE, secure |-> FALSE],
     [schedulable |-> FALSE, secure |-> FALSE],
     [schedulable |-> TRUE, secure |-> TRUE]}

ConfigOk == [schedulable |-> TRUE, secure |-> FALSE]

RECURSIVE Repeat(_, _)
Repeat(x, n) == IF n <= 0 THEN <<>> ELSE <<x>> \o Repeat(x, n - 1)

RECURSIVE RunningFrom(_, _)
RunningFrom(run, k) ==
    IF k > Len(TaskSeq) THEN <<>>
    ELSE Repeat(TaskSeq[k], run[TaskSeq[k]]) \o RunningFrom(run, k + 1)

(* get_running_executions + get_config(id, user).name: the script name of  *)
(* every running execution                                                 *)
get_running_executions(run) == RunningFrom(run, 1)

(* '%s_%s_%s.json' % (script_name, audit name, id) under the schedules     *)
(* folder; one user, so the path is the pair (script_name, id)             *)
PathOf(job) == <<job.script_name, job.id>>

(* os.listdir + files.sort(): the paths in lexicographic order; JunkPath   *)
(* is a .json file that no job owns, sorted after the files of the scripts *)
SortedPaths ==
    [k \in 1..(Len(TaskSeq) * MaxId) |->
        <<TaskSeq[((k - 1) \div MaxId) + 1], ((k - 1) % MaxId) + 1>>]
    \o <<JunkPath>>

----------------------------------------------------------------------------
(* ScheduleService *)

(* validate_script_config without the loop over the parameters            *)
validate_script_config_lax(config_model) ==
    IF ~config_model.schedulable THEN "not schedulable"
    ELSE "ok"

validate_script_config(config_model) ==
    IF ~config_model.schedulable THEN "not schedulable"
    ELSE IF config_model.secure THEN "secure parameters"
    ELSE "ok"

RECURSIVE LimitLoop(_, _, _, _)
LimitLoop(names, count, limit, script_name) ==
    IF names = <<>> THEN FALSE
    ELSE LET c == count + (IF Head(names) = script_name THEN 1 ELSE 0)
         IN  IF c >= limit THEN TRUE
             ELSE LimitLoop(Tail(names), c, limit, script_name)

RECURSIVE LimitLoopOver(_, _, _, _)
LimitLoopOver(names, count, limit, script_name) ==
    IF names = <<>> THEN FALSE
    ELSE LET c == count + (IF Head(names) = script_name THEN 1 ELSE 0)
         IN  IF c > limit THEN TRUE
             ELSE LimitLoopOver(Tail(names), c, limit, script_name)

(* job_limit_reached with `count > limit` for `count >= limit`             *)
job_limit_reached_over(job, run) ==
    IF job.execution_limit = 0 THEN FALSE
    ELSE LimitLoopOver(get_running_executions(run), 0, job.execution_limit,
                       job.script_name)

job_limit_reached(job, run) ==
    IF job.execution_limit = 0 THEN FALSE
    ELSE LimitLoop(get_running_executions(run), 0, job.execution_limit,
                   job.script_name)

(* schedule_job with `next_datetime >= end_arg` for `>`                    *)
schedule_job_ge(st, job, job_path, clock) ==
    LET schedule == job.schedule
        next_datetime == get_next_time(schedule, clock)
    IN  IF ~schedule.repeatable /\ is_past(schedule.start_datetime, clock)
        THEN Log(st, Event("reject", job, job_path, 0,
                           st.running[job.script_name], "past"))
        ELSE IF schedule.end_option = "max_executions"
                /\ schedule.end_arg <= schedule.executions_count
        THEN Log(st, Event("reject", job, job_path, 0,
                           st.running[job.script_name], "max_executions"))
        ELSE IF schedule.end_option = "end_datetime"
                /\ next_datetime >= schedule.end_arg
        THEN Log(st, Event("reject", job, job_path, next_datetime,
                           st.running[job.script_name], "end_datetime"))
        ELSE IF job_limit_reached(job, st.running)
        THEN Log(st, Event("skip", job, job_path, next_datetime,
                           st.running[job.script_name], "limit"))
        ELSE Log([st EXCEPT !.timers =
                      @ \cup {[job |-> job, path |-> job_path,
                               at |-> next_datetime]}],
                 Event("arm", job, job_path, next_datetime,
                       st.running[job.script_name], ""))

schedule_job(st, job, job_path, clock) ==
    LET schedule == job.schedule
        next_datetime == get_next_time(schedule, clock)
    IN  IF ~schedule.repeatable /\ is_past(schedule.start_datetime, clock)
        THEN Log(st, Event("reject", job, job_path, 0,
                           st.running[job.script_name], "past"))
        ELSE IF schedule.end_option = "max_executions"
                /\ schedule.end_arg <= schedule.executions_count
        THEN Log(st, Event("reject", job, job_path, 0,
                           st.running[job.script_name], "max_executions"))
        ELSE IF schedule.end_option = "end_datetime"
                /\ next_datetime > schedule.end_arg
        THEN Log(st, Event("reject", job, job_path, next_datetime,
                           st.running[job.script_name], "end_datetime"))
        ELSE IF job_limit_reached(job, st.running)
        THEN Log(st, Event("skip", job, job_path, next_datetime,
                           st.running[job.script_name], "limit"))
        ELSE Log([st EXCEPT !.timers =
                      @ \cup {[job |-> job, path |-> job_path,
                               at |-> next_datetime]}],
                 Event("arm", job, job_path, next_datetime,
                       st.running[job.script_name], ""))

save_job(st, job) ==
    Log([st EXCEPT !.store[PathOf(job)] =
             [kind |-> "ok", id |-> job.id, data |-> as_serializable_dict(job)]],
        Event("save_job", job, PathOf(job), 0, 0, ""))

(* the try block with executions_count incremented and saved before       *)
(* start_script is called: a start that fails leaves the count incremented *)
try_execute_early(st, job, job_path, config, startOk) ==
    LET valid == validate_script_config(config[job.script_name])
        counted == [job EXCEPT !.schedule.executions_count = @ + 1]
    IN  IF valid # "ok"
        THEN [st |-> Log(st, Event("failed", job, job_path, 0, 0, valid)),
              job |-> job]
        ELSE LET kept == IF job.schedule.repeatable
                         THEN [st |-> save_job(st, counted), job |-> counted]
                         ELSE [st |-> st, job |-> job]
             IN  IF ~startOk
                 THEN [st |-> Log(kept.st, Event("failed", job, job_path, 0, 0,
                                                 "start_script")),
                       job |-> kept.job]
                 ELSE [st |-> Log([kept.st EXCEPT
                                      !.running[job.script_name] = @ + 1,
                                      !.disp[job.id] = @ + 1],
                                  Event("start_script", job, job_path, 0,
                                        st.running[job.script_name], "")),
                       job |-> kept.job]

(* lines 173-192: the try block; startOk = start_script does not raise     *)
try_execute(st, job, job_path, config, startOk) ==
    LET valid == validate_script_config(config[job.script_name])
    IN  IF valid # "ok"
        THEN [st |-> Log(st, Event("failed", job, job_path, 0, 0, valid)),
              job |-> job]
        ELSE IF ~startOk
        THEN [st |-> Log(st, Event("failed", job, job_path, 0, 0, "start_script")),
              job |-> job]
        ELSE LET started ==
                     Log([st EXCEPT
                              !.running[job.script_name] = @ + 1,
                              !.disp[job.id] = @ + 1],
                         Event("start_script", job, job_path, 0,
                               st.running[job.script_name], ""))
                 counted == [job EXCEPT !.schedule.executions_count = @ + 1]
             IN  IF job.schedule.repeatable
                 THEN [st |-> save_job(started, counted), job |-> counted]
                 ELSE [st |-> started, job |-> job]

(* _execute_job with the arming step of line 194 moved before the try     *)
(* block: the next occurrence is armed before this one was attempted       *)
execute_job_armfirst(st, job, job_path, clock, config, startOk) ==
    IF st.store[job_path].kind = "none"
    THEN Log(st, Event("removed", job, job_path, 0, 0, ""))
    ELSE LET armed == schedule_job(Log(st, Event("_execute_job", job,
                                                 job_path, 0, 0, "")),
                                   job, job_path, clock)
         IN  try_execute(armed, job, job_path, config, startOk).st

(* _execute_job without the os.path.exists check of lines 165-167          *)
execute_job_unchecked(st, job, job_path, clock, config, startOk) ==
    LET r == try_execute(Log(st, Event("_execute_job", job, job_path,
                                       0, 0, "")),
                         job, job_path, config, startOk)
    IN  schedule_job(r.st, r.job, job_path, clock)

(* _execute_job with a `return` in the except block: a failed occurrence   *)
(* is not followed by the arming step                                      *)
execute_job_halt(st, job, job_path, clock, config, startOk) ==
    IF st.store[job_path].kind = "none"
    THEN Log(st, Event("removed", job, job_path, 0, 0, ""))
    ELSE LET r == try_execute(Log(st, Event("_execute_job", job, job_path,
                                            0, 0, "")),
                              job, job_path, config, startOk)
         IN  IF r.st.trace[Len(r.st.trace)].type = "failed" THEN r.st
             ELSE schedule_job(r.st, r.job, job_path, clock)

execute_job(st, job, job_path, clock, config, startOk) ==
    IF st.store[job_path].kind = "none"
    THEN Log(st, Event("removed", job, job_path, 0, 0, ""))
    ELSE LET r == try_execute(Log(st, Event("_execute_job", job, job_path,
                                            0, 0, "")),
                              job, job_path, config, startOk)
         IN  schedule_job(r.st, r.job, job_path, clock)


(* read_schedule_config: the request's schedule as a ScheduleConfig; a new *)
(* schedule has had no execution                                           *)
read_schedule_config(incoming_schedule_config) ==
    [incoming_schedule_config EXCEPT !.executions_count = 0]

ExecLimitFrom == 1
ExecLimitTo == 50

(* create_job_check with range(1, 51) for range(1, 50)                     *)
create_job_check_incl(req, clock, config) ==
    LET schedule_config == read_schedule_config(req.schedule)
    IN  IF ~req.user THEN "User id is missing"
        ELSE IF validate_script_config(config[req.script_name]) # "ok"
        THEN validate_script_config(config[req.script_name])
        ELSE IF ~schedule_config.repeatable
                /\ is_past(schedule_config.start_datetime, clock)
        THEN "Start date should be in the future"
        ELSE IF schedule_config.end_option = "end_datetime"
                /\ schedule_config.start_datetime > schedule_config.end_arg
        THEN "End date should be after start date"
        ELSE IF schedule_config.end_option = "max_executions"
                /\ schedule_config.end_arg <= 0
        THEN "Count should be greater than 0!"
        ELSE IF req.execution_limit \notin ExecLimitFrom..ExecLimitTo
        THEN "Execution limit must be an int between 1 to 50"
        ELSE "ok"

(* lines 73-93: the error create_job raises, or "ok"                       *)
create_job_check(req, clock, config) ==
    LET schedule_config == read_schedule_config(req.schedule)
    IN  IF ~req.user THEN "User id is missing"
        ELSE IF validate_script_config(config[req.script_name]) # "ok"
        THEN validate_script_config(config[req.script_name])
        ELSE IF ~schedule_config.repeatable
                /\ is_past(schedule_config.start_datetime, clock)
        THEN "Start date should be in the future"
        ELSE IF schedule_config.end_option = "end_datetime"
                /\ schedule_config.start_datetime > schedule_config.end_arg
        THEN "End date should be after start date"
        ELSE IF schedule_config.end_option = "max_executions"
                /\ schedule_config.end_arg <= 0
        THEN "Count should be greater than 0!"
        ELSE IF req.execution_limit \notin ExecLimitFrom..(ExecLimitTo - 1)
        THEN "Execution limit must be an int between 1 to 50"
        ELSE "ok"

(* IdGenerator.next_id: the ids it may return                              *)
next_id(idsSeen) == Ids \ idsSeen

(* lines 95-108 with the id next_id returned                               *)
create_job_build(st, req, clock, id) ==
    LET job == SchedulingJob(id, read_schedule_config(req.schedule),
                             req.script_name, req.execution_limit)
        \* disp counts the executions of the job that now holds the id
        issued == Log([st EXCEPT !.seen = @ \cup {id}, !.disp[id] = 0],
                      Event("next_id", job, NoPath, 0, 0, ""))
        saved == save_job(issued, job)
    IN  schedule_job(saved, job, PathOf(job), clock)

(* create_job with next_id called before the request is validated         *)
create_job_eager(st, req, clock, config, id) ==
    LET err == create_job_check(req, clock, config)
    IN  IF err # "ok"
        THEN [st |-> Log([st EXCEPT !.seen = @ \cup {id}],
                         Event("raise", NoJob, NoPath, 0, 0, err)),
              ret |-> 0]
        ELSE [st |-> create_job_build(st, req, clock, id), ret |-> id]

create_job(st, req, clock, config, id) ==
    LET err == create_job_check(req, clock, config)
    IN  IF err # "ok"
        THEN [st |-> Log(st, Event("raise", NoJob, NoPath, 0, 0, err)),
              ret |-> 0]
        ELSE [st |-> create_job_build(st, req, clock, id), ret |-> id]

(* restore_jobs with ids.append after from_dict: a file that fails in    *)
(* from_dict gives no id                                                   *)
RECURSIVE restore_from_late(_, _)
restore_from_late(disk, k) ==
    IF k > Len(SortedPaths)
    THEN [jobs |-> <<>>, ids |-> <<>>, trace |-> <<>>]
    ELSE LET job_path == SortedPaths[k]
             file == disk[job_path]
             rest == restore_from_late(disk, k + 1)
         IN  IF file.kind = "none" THEN rest
             ELSE IF file.kind = "ok"
             THEN [jobs |-> <<[path |-> job_path, job |-> from_dict(file.data)]>>
                            \o rest.jobs,
                   ids |-> <<file.data.id>> \o rest.ids,
                   trace |-> <<Event("loaded", from_dict(file.data), job_path,
                                     0, 0, "")>> \o rest.trace]
             ELSE IF file.kind = "badrec"
             THEN [jobs |-> rest.jobs,
                   ids |-> rest.ids,
                   trace |-> <<Event("parse failed", NoJob, job_path, 0, 0,
                                     "from_dict")>> \o rest.trace]
             ELSE [jobs |-> rest.jobs,
                   ids |-> rest.ids,
                   trace |-> <<Event("parse failed", NoJob, job_path, 0, 0,
                                     "json")>> \o rest.trace]

(* restore_jobs without the try/except around one file: the first file    *)
(* that fails to parse ends the loop                                       *)
RECURSIVE restore_from_abort(_, _)
restore_from_abort(disk, k) ==
    IF k > Len(SortedPaths)
    THEN [jobs |-> <<>>, ids |-> <<>>, trace |-> <<>>]
    ELSE LET job_path == SortedPaths[k]
             file == disk[job_path]
             rest == restore_from_abort(disk, k + 1)
         IN  IF file.kind = "none" THEN rest
             ELSE IF file.kind = "ok"
             THEN [jobs |-> <<[path |-> job_path, job |-> from_dict(file.data)]>>
                            \o rest.jobs,
                   ids |-> <<file.data.id>> \o rest.ids,
                   trace |-> <<Event("loaded", from_dict(file.data), job_path,
                                     0, 0, "")>> \o rest.trace]
             ELSE IF file.kind = "badrec"
             THEN [jobs |-> <<>>,
                   ids |-> <<file.id>>,
                   trace |-> <<Event("parse failed", NoJob, job_path, 0, 0,
                                     "from_dict")>>]
             ELSE [jobs |-> <<>>,
                   ids |-> <<>>,
                   trace |-> <<Event("parse failed", NoJob, job_path, 0, 0,
                                     "json")>>]

RECURSIVE restore_from(_, _)
restore_from(disk, k) ==
    IF k > Len(SortedPaths)
    THEN [jobs |-> <<>>, ids |-> <<>>, trace |-> <<>>]
    ELSE LET job_path == SortedPaths[k]
             file == disk[job_path]
             rest == restore_from(disk, k + 1)
         IN  IF file.kind = "none" THEN rest
             ELSE IF file.kind = "ok"
             THEN [jobs |-> <<[path |-> job_path, job |-> from_dict(file.data)]>>
                            \o rest.jobs,
                   ids |-> <<file.data.id>> \o rest.ids,
                   trace |-> <<Event("loaded", from_dict(file.data), job_path,
                                     0, 0, "")>> \o rest.trace]
             ELSE IF file.kind = "badrec"
             THEN [jobs |-> rest.jobs,
                   ids |-> <<file.id>> \o rest.ids,
                   trace |-> <<Event("parse failed", NoJob, job_path, 0, 0,
                                     "from_dict")>> \o rest.trace]
             ELSE [jobs |-> rest.jobs,
                   ids |-> rest.ids,
                   trace |-> <<Event("parse failed", NoJob, job_path, 0, 0,
                                     "json")>> \o rest.trace]

restore_jobs(disk) == restore_from(disk, 1)

(* IdGenerator(ids)                                                        *)
IdGenerator(ids) == {ids[k] : k \in 1..Len(ids)}

(* __init__ without the autorun branch                                     *)
RECURSIVE init_loop_noautorun(_, _, _, _, _, _)
init_loop_noautorun(st, jobs, k, clock, config, failing) ==
    IF k > Len(jobs) THEN st
    ELSE LET job == jobs[k].job
             job_path == jobs[k].path
             next == schedule_job(st, job, job_path, clock)
         IN  init_loop_noautorun(next, jobs, k + 1, clock, config, failing)

RECURSIVE init_loop(_, _, _, _, _, _)
init_loop(st, jobs, k, clock, config, failing) ==
    IF k > Len(jobs) THEN st
    ELSE LET job == jobs[k].job
             job_path == jobs[k].path
             next == IF job.schedule.autorun
                     THEN execute_job(st, job, job_path, clock, config,
                                      job.script_name \notin failing)
                     ELSE schedule_job(st, job, job_path, clock)
         IN  init_loop(next, jobs, k + 1, clock, config, failing)

(* ScheduleService.__init__ in a fresh process                             *)
init_service(disk, clock, config, failing, history) ==
    LET r == restore_jobs(disk)
        st == [store |-> disk, timers |-> {},
               running |-> [t \in Tasks |-> 0],
               seen |-> IdGenerator(r.ids), disp |-> history,
               trace |-> r.trace]
    IN  init_loop(st, r.jobs, 1, clock, config, failing)


----------------------------------------------------------------------------
(* The state machine *)

Cur == [store |-> store, timers |-> timers, running |-> running,
        seen |-> seen, disp |-> disp, trace |-> <<>>]

Events == {trace[k] : k \in 1..Len(trace)}

SkippedIn(tr) == {tr[k].job.id : k \in {i \in 1..Len(tr) : tr[i].type = "skip"}}

Install(st) ==
    /\ store' = st.store
    /\ timers' = st.timers
    /\ running' = st.running
    /\ seen' = st.seen
    /\ disp' = st.disp
    /\ trace' = st.trace

InBounds(st) ==
    /\ \A t \in Tasks : st.running[t] <= MaxRunning
    /\ \A i \in Ids : st.disp[i] <= MaxDispatch

LeastOf(ids) == {i \in ids : \A j \in ids : i <= j}

Env == [op |-> "env", req |-> NoReq, ret |-> 0]

Schedule(repeatable, start, period, end_option, end_arg, autorun) ==
    [repeatable |-> repeatable, start_datetime |-> start, period |-> period,
     end_option |-> end_option, end_arg |-> end_arg, executions_count |-> 0,
     autorun |-> autorun]

Request(user, script_name, schedule, execution_limit) ==
    [user |-> user, script_name |-> script_name, schedule |-> schedule,
     execution_limit |-> execution_limit]

Init ==
    /\ now = 0
    /\ cfg = [t \in Tasks |-> ConfigOk]
    /\ store = [p \in Paths |-> NoFile]
    /\ timers = {}
    /\ seen = {}
    /\ running = [t \in Tasks |-> 0]
    /\ disp = [i \in Ids |-> 0]
    /\ issuedLog = <<>>
    /\ engineStart = 0
    /\ seeded = {}
    /\ seededBad = {}
    /\ skipped = {}
    /\ call = [op |-> "__init__", req |-> NoReq, ret |-> 0]
    /\ trace = <<>>
    /\ threads = {}

(* least: of the ids next_id may return, only the least is tried           *)
CreateJob(req, least) ==
    LET err == create_job_check(req, now, cfg)
        ids == IF least THEN LeastOf(next_id(seen)) ELSE next_id(seen)
    IN  \E id \in (IF err = "ok" THEN ids ELSE {0}) :
            LET r == create_job(Cur, req, now, cfg, id)
            IN  /\ err = "ok" => Len(issuedLog) < MaxCreates
                /\ Install(r.st)
                /\ skipped' = skipped \cup SkippedIn(r.st.trace)
                /\ call' = [op |-> "create_job", req |-> req, ret |-> r.ret]
                /\ issuedLog' = IF r.ret # 0 THEN Append(issuedLog, r.ret)
                                ELSE issuedLog
                /\ UNCHANGED <<now, cfg, engineStart, seeded, seededBad, threads>>

(* the Scheduler runs the callback of a timer that is due                  *)
Fire(tm, startOk) ==
    /\ tm \in timers
    /\ tm.at <= now
    /\ LET fired == Log([Cur EXCEPT !.timers = @ \ {tm}],
                        Event("timer", tm.job, tm.path, tm.at, 0, ""))
           st == execute_job(fired, tm.job, tm.path, now, cfg, startOk)
       IN  /\ InBounds(st)
           /\ Install(st)
           /\ skipped' = skipped \cup SkippedIn(st.trace)
    /\ call' = [op |-> "_execute_job", req |-> NoReq, ret |-> 0]
    /\ UNCHANGED <<now, cfg, issuedLog, engineStart, seeded, seededBad, threads>>

(* the process ends and a new one builds the service on the same folder    *)
Restart(failing) ==
    /\ LET st == init_service(store, now, cfg, failing, disp)
       IN  /\ InBounds(st)
           /\ Install(st)
           /\ skipped' = SkippedIn(st.trace)
    /\ engineStart' = Len(issuedLog)
    /\ seeded' = {store[p].id : p \in {q \in Paths :
                                         store[q].kind \in {"ok", "badrec"}}}
    /\ seededBad' = {store[p].id : p \in {q \in Paths :
                                            store[q].kind = "badrec"}}
    /\ call' = [op |-> "__init__", req |-> NoReq, ret |-> 0]
    /\ threads' = {}
    /\ UNCHANGED <<now, cfg, issuedLog>>

Tick ==
    /\ now < MaxTime
    /\ now' = now + 1
    /\ call' = Env
    /\ trace' = <<>>
    /\ UNCHANGED <<cfg, store, timers, seen, running, disp, issuedLog,
                   engineStart, seeded, seededBad, skipped, threads>>

(* an ad-hoc run of a script starts                                        *)
AdhocStart(t) ==
    /\ running[t] < MaxRunning
    /\ running' = [running EXCEPT ![t] = @ + 1]
    /\ call' = Env
    /\ trace' = <<>>
    /\ UNCHANGED <<now, cfg, store, timers, seen, disp, issuedLog,
                   engineStart, seeded, seededBad, skipped, threads>>

(* a running execution ends                                                *)
Finish(t) ==
    /\ running[t] > 0
    /\ running' = [running EXCEPT ![t] = @ - 1]
    /\ call' = Env
    /\ trace' = <<>>
    /\ UNCHANGED <<now, cfg, store, timers, seen, disp, issuedLog,
                   engineStart, seeded, seededBad, skipped, threads>>

(* a schedule file is deleted out of band                                  *)
DeleteFile(p) ==
    /\ store[p].kind # "none"
    /\ store' = [store EXCEPT ![p] = NoFile]
    /\ call' = Env
    /\ trace' = <<>>
    /\ UNCHANGED <<now, cfg, timers, seen, running, disp, issuedLog,
                   engineStart, seeded, seededBad, skipped, threads>>

(* a schedule file is damaged out of band: "badrec" keeps a readable id,   *)
(* "badjson" is no JSON at all                                             *)
CorruptFile(p, kind) ==
    /\ store[p].kind = "ok"
    /\ store' = [store EXCEPT ![p] =
                     [kind |-> kind,
                      id |-> IF kind = "badrec" THEN store[p].id ELSE 0,
                      data |-> NoJob]]
    /\ call' = Env
    /\ trace' = <<>>
    /\ UNCHANGED <<now, cfg, timers, seen, running, disp, issuedLog,
                   engineStart, seeded, seededBad, skipped, threads>>

(* the definition of a script is edited                                    *)
ChangeConfig(t, c) ==
    /\ cfg[t] # c
    /\ cfg' = [cfg EXCEPT ![t] = c]
    /\ call' = Env
    /\ trace' = <<>>
    /\ UNCHANGED <<now, store, timers, seen, running, disp, issuedLog,
                   engineStart, seeded, seededBad, skipped, threads>>

----------------------------------------------------------------------------
(* Spec: the recurrence chains.  Jobs are created, their timers fire, ad-hoc*)
(* runs start and end, the process restarts.                               *)

MainRequests ==
    {Request(TRUE, "a", Schedule(TRUE, 1, 1, "max_executions", 2, FALSE), 2),
     Request(TRUE, "a", Schedule(TRUE, 1, 1, "max_executions", 1, TRUE), 1),
     Request(TRUE, "a", Schedule(TRUE, 0, 2, "end_datetime", 2, FALSE), 1),
     Request(TRUE, "b", Schedule(FALSE, 1, 1, "none", 0, FALSE), 1),
     Request(TRUE, "b", Schedule(TRUE, 1, 1, "none", 0, FALSE), 2)}

Next ==
    \/ \E req \in MainRequests : CreateJob(req, TRUE)
    \/ \E tm \in timers, startOk \in BOOLEAN : Fire(tm, startOk)
    \/ \E failing \in SUBSET Tasks : Restart(failing)
    \/ Tick
    \/ \E t \in Tasks : AdhocStart(t)
    \/ \E t \in Tasks : Finish(t)

Spec == Init /\ [][Next]_vars

----------------------------------------------------------------------------
(* SpecStore: the schedules folder.  Files are deleted and damaged out of  *)
(* band between restarts.                                                  *)

StoreRequests ==
    {Request(TRUE, "a", Schedule(TRUE, 1, 1, "max_executions", 1, TRUE), 1),
     Request(TRUE, "a", Schedule(TRUE, 1, 1, "none", 0, FALSE), 1),
     Request(TRUE, "b", Schedule(TRUE, 1, 1, "none", 0, TRUE), 2),
     Request(TRUE, "b", Schedule(FALSE, 1, 1, "none", 0, FALSE), 1)}

(* the service was built on a folder that holds one file that is no JSON   *)
InitStore ==
    /\ now = 0
    /\ cfg = [t \in Tasks |-> ConfigOk]
    /\ store = [p \in Paths |->
                   IF p = JunkPath
                   THEN [kind |-> "badjson", id |-> 0, data |-> NoJob]
                   ELSE NoFile]
    /\ timers = {}
    /\ seen = {}
    /\ running = [t \in Tasks |-> 0]
    /\ disp = [i \in Ids |-> 0]
    /\ issuedLog = <<>>
    /\ engineStart = 0
    /\ seeded = {}
    /\ seededBad = {}
    /\ skipped = {}
    /\ call = [op |-> "__init__", req |-> NoReq, ret |-> 0]
    /\ trace = <<Event("parse failed", NoJob, JunkPath, 0, 0, "json")>>
    /\ threads = {}

NextStore ==
    \/ \E req \in StoreRequests : CreateJob(req, FALSE)
    \/ \E failing \in SUBSET Tasks : Restart(failing)
    \/ Tick
    \/ \E p \in Paths : DeleteFile(p)
    \/ \E p \in Paths, kind \in {"badrec", "badjson"} : CorruptFile(p, kind)

SpecStore == InitStore /\ [][NextStore]_vars

----------------------------------------------------------------------------
(* SpecCreate: the validation of create_job, over requests that meet and   *)
(* miss each of its conditions, while the clock and the script's definition*)
(* change.                                                                 *)

WideSchedules ==
    {Schedule(FALSE, 0, 1, "none", 0, FALSE),
     Schedule(FALSE, 1, 1, "none", 0, FALSE),
     Schedule(TRUE, 1, 1, "end_datetime", 0, FALSE),
     Schedule(TRUE, 1, 1, "end_datetime", 1, FALSE),
     Schedule(TRUE, 0, 1, "max_executions", 0, FALSE),
     Schedule(TRUE, 0, 1, "max_executions", 1, FALSE)}

WideRequests ==
    {Request(TRUE, "a", s, l) : s \in WideSchedules, l \in {0, 1, 49, 50}}
    \cup {Request(FALSE, "a", s, 1) : s \in WideSchedules}

NextCreate ==
    \/ \E req \in WideRequests : CreateJob(req, TRUE)
    \/ Tick
    \/ \E c \in ConfigModels : ChangeConfig("a", c)

SpecCreate == Init /\ [][NextCreate]_vars

----------------------------------------------------------------------------
(* Claims checked under Spec *)

IsMax(job) ==
    job.schedule.repeatable /\ job.schedule.end_option = "max_executions"

IsEnd(job) ==
    job.schedule.repeatable /\ job.schedule.end_option = "end_datetime"

(* C1: for a repeatable job with end_option max_executions and end_arg N,  *)
(* whatever the engine does (create_job, timers firing, restarts), no more *)
(* than N executions of the job are ever started, and no timer is armed for*)
(* it once N were started.                                                 *)
C1_ExactlyN ==
    /\ \A e \in Events :
          e.type = "start_script" /\ IsMax(e.job)
              => disp[e.job.id] <= e.job.schedule.end_arg
    /\ \A tm \in timers :
          IsMax(tm.job) => disp[tm.job.id] < tm.job.schedule.end_arg

(* C2: when a timer fires, the execution of its job is never started while *)
(* the number of running executions of the job's script (started by any job*)
(* or ad hoc) is at or above the job's execution_limit.                    *)
C2_CeilingAtDispatch ==
    call.op = "_execute_job"
        => \A e \in Events :
               e.type = "start_script" => e.run < e.job.execution_limit

(* C3: when the arming step runs for a job while at least execution_limit  *)
(* executions of its script are running, no timer is armed for the job,    *)
(* nothing is started for it afterwards, its executions_count stays what it*)
(* was, and the running engine never holds a timer for that job again.     *)
C3_SkipStalls ==
    /\ \A k \in 1..Len(trace) :
          LET e == trace[k]
          IN  e.type \in {"arm", "skip", "reject"}
              /\ e.run >= e.job.execution_limit
              => /\ e.type # "arm"
                 /\ \A tm \in timers : tm.job.id # e.job.id
                 /\ \A m \in (k + 1)..Len(trace) :
                        trace[m].job.id = e.job.id
                            => trace[m].type \notin {"start_script", "arm"}
                 /\ store[e.path].kind = "ok"
                        => store[e.path].data.schedule.executions_count
                           = e.job.schedule.executions_count
    /\ \A tm \in timers : tm.job.id \notin skipped

(* C3 witness: the handler of a fired timer started the execution of a     *)
(* repeatable job without end and then skipped its next occurrence.        *)
C3_Witness ==
    /\ call.op = "_execute_job"
    /\ \E e \in Events :
          /\ e.type = "skip"
          /\ e.job.schedule.repeatable
          /\ e.job.schedule.end_option = "none"
          /\ e.job.schedule.executions_count > 0

----------------------------------------------------------------------------
(* Claims checked under SpecStore *)

(* C6: every id create_job returns differs from every id readable in the   *)
(* folder when the running engine was built, the ids of files that failed  *)
(* to parse included, and from every id the running engine returned before;*)
(* restarts included.                                                      *)
C6_FreshIds ==
    \A k \in (engineStart + 1)..Len(issuedLog) :
        /\ issuedLog[k] \notin seeded
        /\ \A m \in (engineStart + 1)..(k - 1) : issuedLog[m] # issuedLog[k]

(* C6 witness: an engine rebuilt on a folder holding a file that failed to *)
(* parse but has a readable id has returned a new id.                      *)
C6_Witness ==
    /\ engineStart > 0
    /\ seededBad # {}
    /\ Len(issuedLog) > engineStart
    /\ call.op = "create_job"

(* C7: create_job never returns an id it has ever returned before, across  *)
(* deletions of files and restarts.                                        *)
C7_NeverReused ==
    \A k \in 1..Len(issuedLog) :
        \A m \in 1..(k - 1) : issuedLog[m] # issuedLog[k]

(* shouldAdmitNext of the recurrence rule                                  *)
RuleAdmits(job, clock) ==
    /\ ~(~job.schedule.repeatable /\ job.schedule.start_datetime <= clock)
    /\ ~(job.schedule.end_option = "max_executions"
         /\ job.schedule.executions_count >= job.schedule.end_arg)
    /\ ~(job.schedule.end_option = "end_datetime"
         /\ get_next_time(job.schedule, clock) > job.schedule.end_arg)

OkPaths(disk) == {p \in Paths : disk[p].kind = "ok"}
BadPaths(disk) == {p \in Paths : disk[p].kind \in {"badrec", "badjson"}}

OfType(tr, types) == {k \in 1..Len(tr) : tr[k].type \in types}

(* the startup loaded exactly the files of the folder that parse, under    *)
(* their paths, and logged the others                                      *)
LoadedExactly(disk, tr) ==
    /\ {<<tr[k].path, tr[k].job>> : k \in OfType(tr, {"loaded"})}
       = {<<p, from_dict(disk[p].data)>> : p \in OkPaths(disk)}
    /\ {tr[k].path : k \in OfType(tr, {"parse failed"})} = BadPaths(disk)

Armed(tm, job, path, clock) ==
    [job |-> job, path |-> path, at |-> get_next_time(job.schedule, clock)]
        \in tm

(* C8 as claimed: a startup loads exactly the files that parse, gives every*)
(* loaded autorun job a dispatch attempt and arms every other loaded job   *)
(* whose rule admits a next occurrence.                                    *)
C8_AllAdmittedArmedStep ==
    call'.op = "__init__"
    => /\ LoadedExactly(store, trace')
       /\ \A p \in OkPaths(store) :
            LET job == from_dict(store[p].data)
            IN  IF job.schedule.autorun
                THEN \E k \in OfType(trace', {"_execute_job"}) :
                         trace'[k].path = p
                ELSE RuleAdmits(job, now) => Armed(timers', job, p, now)

StartedBefore(tr, k, script_name) ==
    Cardinality({m \in OfType(tr, {"start_script"}) :
                    m < k /\ tr[m].job.script_name = script_name})

C8_AmendedStep ==
    call'.op = "__init__"
    => /\ LoadedExactly(store, trace')
       /\ \A p \in OkPaths(store) :
            LET job == from_dict(store[p].data)
            IN  IF job.schedule.autorun
                THEN \E k \in OfType(trace', {"_execute_job"}) :
                         trace'[k].path = p
                ELSE \E k \in OfType(trace', {"arm", "skip", "reject"}) :
                         /\ trace'[k].path = p
                         /\ Armed(timers', job, p, now)
                            <=> /\ RuleAdmits(job, now)
                                /\ StartedBefore(trace', k, job.script_name)
                                   < job.execution_limit

----------------------------------------------------------------------------
(* Claims checked under SpecCreate *)

(* the conditions under which create_job is to fail                        *)
ToReject(req, clock, config) ==
    \/ ~req.user
    \/ ~config[req.script_name].schedulable
    \/ config[req.script_name].secure
    \/ ~req.schedule.repeatable /\ req.schedule.start_datetime <= clock
    \/ req.schedule.end_option = "end_datetime"
       /\ req.schedule.end_arg < req.schedule.start_datetime
    \/ req.schedule.end_option = "max_executions" /\ req.schedule.end_arg <= 0
    \/ req.execution_limit < 1
    \/ req.execution_limit > 49

C5_Step ==
    call'.op = "create_job"
    => IF call'.ret = 0
       THEN /\ UNCHANGED <<store, timers, seen, issuedLog, running, disp>>
            /\ OfType(trace', {"next_id", "save_job", "arm"}) = {}
       ELSE /\ Len(trace') = 3
            /\ trace'[1].type = "next_id"
            /\ trace'[2].type = "save_job"
            /\ trace'[3].type \in {"arm", "skip", "reject"}
            /\ call'.ret \notin seen
            /\ seen' = seen \cup {call'.ret}
            /\ \A p \in Paths :
                  IF p = <<call'.req.script_name, call'.ret>>
                  THEN store'[p].kind = "ok" /\ store'[p].data.id = call'.ret
                  ELSE store'[p] = store[p]
            /\ timers \subseteq timers'
            /\ \A tm \in timers' \ timers :
                  tm.job.id = call'.ret /\ store'[tm.path].kind = "ok"

C5_FailureLeavesNoTrace == [][C5_Step]_vars

(* C5 witness: a create_job failed in an engine that holds a stored job    *)
(* with a timer.                                                           *)
C5_Witness ==
    /\ call.op = "create_job"
    /\ call.ret = 0
    /\ timers # {}
    /\ \E p \in Paths : store[p].kind = "ok"

----------------------------------------------------------------------------
(* SpecChain: one job's chain from creation to its end.  Timers fire with  *)
(* the start of the execution succeeding or failing, the script's          *)
(* definition is edited, schedule files are deleted out of band, the       *)
(* process restarts.                                                       *)

ChainRequests ==
    {Request(TRUE, "b", Schedule(FALSE, 1, 1, "none", 0, TRUE), 2),
     Request(TRUE, "b", Schedule(FALSE, 1, 1, "none", 0, FALSE), 2),
     Request(TRUE, "a", Schedule(TRUE, 1, 1, "none", 0, FALSE), 2)}

NextChain ==
    \/ \E req \in ChainRequests : CreateJob(req, TRUE)
    \/ \E tm \in timers, startOk \in BOOLEAN : Fire(tm, startOk)
    \/ \E failing \in {{}, Tasks} : Restart(failing)
    \/ Tick
    \/ \E t \in Tasks : Finish(t)
    \/ \E p \in Paths : DeleteFile(p)
    \/ \E t \in Tasks, c \in ConfigModels : ChangeConfig(t, c)

SpecChain == Init /\ [][NextChain]_vars

----------------------------------------------------------------------------
(* Claims checked under SpecChain *)

OneShot(job) == job.id # 0 /\ ~job.schedule.repeatable

(* C11: a non-repeatable job has one occurrence, at its start_datetime: a  *)
(* create_job that accepts it with a future start arms exactly one timer   *)
(* for it, no more than one execution of it is ever started, and every     *)
(* arming step that runs for it once its start has passed rejects it, so a *)
(* timer is armed for it only while its start lies ahead.                  *)
C11_OneOccurrence ==
    /\ \A e \in Events :
          OneShot(e.job)
          => /\ e.type = "start_script" => disp[e.job.id] <= 1
             /\ e.type \in {"arm", "skip", "reject"}
                /\ e.job.schedule.start_datetime <= now
                    => e.type = "reject" /\ e.why = "past"
             /\ e.type = "arm" => e.job.schedule.start_datetime > now
    /\ call.op = "create_job" /\ call.ret # 0
       /\ ~call.req.schedule.repeatable
          => /\ Cardinality(OfType(trace, {"arm"})) = 1
             /\ Cardinality({tm \in timers : tm.job.id = call.ret}) = 1

ArmingSteps == {"arm", "skip", "reject"}

NoEnd(job) == job.schedule.repeatable /\ job.schedule.end_option = "none"

(* C12: when a timer fires for a job whose file exists, the handler makes  *)
(* one dispatch attempt and then runs the arming step, whether the attempt *)
(* started the execution or failed (definition not schedulable, secure     *)
(* parameter, start_script raising); for a repeatable job without end whose*)
(* script then has fewer running executions than execution_limit the       *)
(* handler leaves a timer armed for a later time; a failed attempt leaves  *)
(* executions_count, in the file and in the armed job, as it was.          *)
C12_Step ==
    call'.op = "_execute_job" /\ store[trace'[1].path].kind # "none"
    => LET job == trace'[1].job
           path == trace'[1].path
           last == trace'[Len(trace')]
       IN  /\ Cardinality(OfType(trace', {"start_script", "failed"})) = 1
           /\ Cardinality(OfType(trace', ArmingSteps)) = 1
           /\ last.type \in ArmingSteps
           /\ last.job.id = job.id /\ last.path = path
           /\ NoEnd(job) /\ running'[job.script_name] < job.execution_limit
                => \E tm \in timers' :
                       /\ tm.job = last.job /\ tm.path = path
                       /\ tm.at > now
                       /\ last.type = "arm"
           /\ OfType(trace', {"failed"}) # {}
                => /\ last.job = job
                   /\ store' = store
                   /\ running' = running

C12_FailureKeepsChain == [][C12_Step]_vars

(* C12 witness: the definition of a script was made unschedulable, a timer *)
(* of a repeatable job without end fired, the attempt failed and the next  *)
(* occurrence was armed.                                                   *)
C12_Witness ==
    /\ call.op = "_execute_job"
    /\ \E e \in Events : e.type = "failed" /\ e.why = "not schedulable"
    /\ \E e \in Events : e.type = "arm" /\ NoEnd(e.job)
    /\ \E tm \in timers : NoEnd(tm.job) /\ tm.at > now

(* C13: when a timer fires for a job whose file no longer exists at its    *)
(* job_path, the handler starts no execution, leaves executions_count and  *)
(* the folder as they are (the deleted file is not written again) and arms *)
(* no timer: the job has no timer left.                                    *)
C13_Step ==
    call'.op = "_execute_job" /\ store[trace'[1].path].kind = "none"
    => LET job == trace'[1].job
           path == trace'[1].path
       IN  /\ Len(trace') = 2
           /\ trace'[2].type = "removed"
           /\ store' = store
           /\ running' = running
           /\ disp' = disp
           /\ seen' = seen
           /\ timers' \subseteq timers
           /\ \A tm \in timers' : tm.path # path

C13_RemovedEndsChain == [][C13_Step]_vars

(* C13 witness: the file of a repeatable job without end was deleted while *)
(* its timer was armed; the timer fired at a time when the definition is   *)
(* valid, and the handler stopped.                                         *)
C13_Witness ==
    /\ call.op = "_execute_job"
    /\ \E e \in Events : e.type = "removed" /\ NoEnd(e.job)
                         /\ store[e.path].kind = "none"
                         /\ cfg[e.job.script_name] = ConfigOk

CountOf(file) == file.data.schedule.executions_count

(* the executions_count of every stored job is the number of executions    *)
(* started for it if it is repeatable and 0 if it is not, and the job a    *)
(* timer holds carries the count of its file                               *)
CountsMatch(disk, tms, started) ==
    /\ \A p \in OkPaths(disk) :
          CountOf(disk[p]) = IF disk[p].data.schedule.repeatable
                             THEN started[disk[p].data.id] ELSE 0
    /\ \A tm \in tms :
          disk[tm.path].kind = "ok"
              => tm.job.schedule.executions_count = CountOf(disk[tm.path])

(* C14: in every step the executions_count of a stored job stays as it was *)
(* unless the step started an execution of that job and the job is         *)
(* repeatable, and then it grows by exactly 1; create_job stores a count   *)
(* of 0; so the count of a repeatable job always equals the number of      *)
(* executions started for it, and that of a non-repeatable job is always 0.*)
C14_Step ==
    /\ \A p \in OkPaths(store) \cap OkPaths(store') :
          LET started == {k \in OfType(trace', {"start_script"}) :
                              trace'[k].path = p}
          IN  /\ Cardinality(started) <= 1
              /\ CountOf(store'[p])
                 = CountOf(store[p])
                   + (IF store[p].data.schedule.repeatable
                      THEN Cardinality(started) ELSE 0)
    /\ \A p \in OkPaths(store') \ OkPaths(store) :
          call'.op = "create_job" /\ CountOf(store'[p]) = 0
    /\ CountsMatch(store', timers', disp')

C16_ChainOrdered ==
    /\ \A tm1 \in timers, tm2 \in timers : tm1.path = tm2.path => tm1 = tm2
    /\ \A m \in OfType(trace, {"_execute_job"}) :
          \A k \in OfType(trace, ArmingSteps) :
              trace[k].path = trace[m].path
              => /\ m < k
                 /\ \E n \in OfType(trace, {"start_script", "failed"}) :
                        m < n /\ n < k /\ trace[n].path = trace[m].path
    /\ call.op = "_execute_job"
          => \A tm \in timers :
                 tm.path = trace[1].path => tm.at > trace[1].at

(* C16 witness: the timer of a repeatable job fired, its execution was     *)
(* started and the timer of its next occurrence was armed after that,      *)
(* while another job holds a timer of its own.                             *)
C16_Witness ==
    /\ call.op = "_execute_job"
    /\ \E k \in OfType(trace, {"arm"}) :
          /\ trace[k - 1].type = "save_job"
          /\ \E tm \in timers : tm.path = trace[k].path
    /\ Cardinality(timers) = 2

(* C18: every execution the engine starts and every job file it writes, in*)
(* create_job, in the handler of a timer or in the autorun dispatch of a   *)
(* startup, belongs to a script whose definition, as that operation loaded *)
(* it, is schedulable and has no secure parameter.                         *)
C18_ValidatedFirst ==
    \A e \in Events :
        e.type \in {"start_script", "save_job"}
            => /\ cfg[e.job.script_name].schedulable
               /\ ~cfg[e.job.script_name].secure

(* C18 witness: the definition of a script got a secure parameter after a  *)
(* job of it was stored; the job's timer fired and the handler neither     *)
(* started an execution nor wrote the file.                                *)
C18_Witness ==
    /\ call.op = "_execute_job"
    /\ \E e \in Events :
          /\ e.type = "failed" /\ e.why = "secure parameters"
          /\ store[e.path].kind = "ok"
    /\ OfType(trace, {"start_script", "save_job"}) = {}

----------------------------------------------------------------------------
(* SpecFolder: the service is built on a schedules folder that holds a     *)
(* valid record under a file name other than the one save_job derives; the *)
(* execution_limit of stored records is edited out of band.                *)

FileOf(job) == [kind |-> "ok", id |-> job.id, data |-> as_serializable_dict(job)]

FolderWith(p, job) == [q \in Paths |-> IF q = p THEN FileOf(job) ELSE NoFile]

Folders ==
    {FolderWith(JunkPath,
                SchedulingJob(1, Schedule(TRUE, 1, 1, "none", 0, FALSE), "a", 2))}

(* the execution_limit of a stored record is edited out of band            *)
EditLimit(p, limit) ==
    /\ store[p].kind = "ok"
    /\ store[p].data.execution_limit # limit
    /\ store' = [store EXCEPT ![p].data.execution_limit = limit]
    /\ call' = Env
    /\ trace' = <<>>
    /\ UNCHANGED <<now, cfg, timers, seen, running, disp, issuedLog,
                   engineStart, seeded, seededBad, skipped, threads>>

InitFolder ==
    \E disk \in Folders :
        LET st == init_service(disk, 0, [t \in Tasks |-> ConfigOk], {},
                               [i \in Ids |-> 0])
        IN  /\ now = 0
            /\ cfg = [t \in Tasks |-> ConfigOk]
            /\ store = st.store
            /\ timers = st.timers
            /\ seen = st.seen
            /\ running = st.running
            /\ disp = st.disp
            /\ issuedLog = <<>>
            /\ engineStart = 0
            /\ seeded = {disk[p].id : p \in OkPaths(disk)}
            /\ seededBad = {}
            /\ skipped = SkippedIn(st.trace)
            /\ call = [op |-> "__init__", req |-> NoReq, ret |-> 0]
            /\ trace = st.trace
            /\ threads = {}

FolderRequests ==
    {Request(TRUE, "a", Schedule(TRUE, 1, 1, "max_executions", 2, FALSE), 1)}

NextFolder ==
    \/ \E req \in FolderRequests : CreateJob(req, TRUE)
    \/ \E tm \in timers, startOk \in BOOLEAN : Fire(tm, startOk)
    \/ \E failing \in {{}} : Restart(failing)
    \/ Tick
    \/ \E t \in {"a"} : AdhocStart(t)
    \/ \E t \in {"a"} : Finish(t)
    \/ \E p \in Paths : DeleteFile(p)
    \/ \E p \in Paths : EditLimit(p, 0)

SpecFolder == InitFolder /\ [][NextFolder]_vars

----------------------------------------------------------------------------
(* Claims checked under SpecFolder *)

(* C15: every save_job made after an execution started writes the file at  *)
(* the job_path the job was loaded from or created at, the path whose      *)
(* existence _execute_job checked; and no two files of the folder hold a   *)
(* record with the same id.                                                *)
C15_InPlace ==
    /\ \A k \in OfType(trace, {"save_job"}) :
          k > 1 /\ trace[k - 1].type = "start_script"
              => trace[k].path = trace[k - 1].path
    /\ \A p \in OkPaths(store), q \in OkPaths(store) :
          store[p].data.id = store[q].data.id => p = q

(* C19: every job the engine holds, built by create_job or by from_dict at *)
(* startup, has an execution_limit in 1..49, and a timer is armed for a job*)
(* only when fewer executions of its script are running than that limit.   *)
C19_LimitEnforced ==
    /\ \A tm \in timers :
          tm.job.execution_limit \in ExecLimitFrom..(ExecLimitTo - 1)
    /\ \A e \in Events :
          /\ e.type \in {"loaded", "next_id"}
                => e.job.execution_limit \in ExecLimitFrom..(ExecLimitTo - 1)
          /\ e.type = "arm" => e.run < e.job.execution_limit

----------------------------------------------------------------------------
(* SpecThreads: handlers run on threads.  The Scheduler runs _execute_job  *)
(* of each due timer on a thread of its own and create_job runs on the     *)
(* thread of its caller; nothing in ScheduleService holds a lock, so the   *)
(* handlers interleave between their calls to the execution service, the   *)
(* folder and the Scheduler.  A handler's position is the pc of its thread:*)
(* "save_job" (about to call save_job), "writing" (write_file has opened   *)
(* the file), "schedule_job" (about to call schedule_job).  The process may*)
(* stop at any of these positions and be started again.                    *)

Thread(op, job, path, pc) == [op |-> op, job |-> job, path |-> path, pc |-> pc]

Move(th, pc) == (threads \ {th}) \cup {[th EXCEPT !.pc = pc]}

(* lines 173-187: the try block up to the increment of executions_count    *)
try_start(st, job, job_path, config, startOk) ==
    LET valid == validate_script_config(config[job.script_name])
    IN  IF valid # "ok"
        THEN [st |-> Log(st, Event("failed", job, job_path, 0, 0, valid)),
              job |-> job, saves |-> FALSE]
        ELSE IF ~startOk
        THEN [st |-> Log(st, Event("failed", job, job_path, 0, 0, "start_script")),
              job |-> job, saves |-> FALSE]
        ELSE [st |-> Log([st EXCEPT !.running[job.script_name] = @ + 1,
                                    !.disp[job.id] = @ + 1],
                         Event("start_script", job, job_path, 0,
                               st.running[job.script_name], "")),
              job |-> IF job.schedule.repeatable
                      THEN [job EXCEPT !.schedule.executions_count = @ + 1]
                      ELSE job,
              saves |-> job.schedule.repeatable]

(* _execute_job, lines 162-187: a due timer fires and its thread runs up to*)
(* the call of save_job (or of schedule_job when there is nothing to save) *)
FireStart(tm, startOk) ==
    /\ tm \in timers
    /\ tm.at <= now
    /\ LET fired == Log([Cur EXCEPT !.timers = @ \ {tm}],
                        Event("timer", tm.job, tm.path, tm.at, 0, ""))
       IN  IF store[tm.path].kind = "none"
           THEN /\ Install(Log(fired, Event("removed", tm.job, tm.path, 0, 0, "")))
                /\ threads' = threads
           ELSE LET r == try_start(Log(fired, Event("_execute_job", tm.job,
                                                   tm.path, 0, 0, "")),
                                   tm.job, tm.path, cfg, startOk)
                IN  /\ \A t \in Tasks : r.st.running[t] <= MaxRunning
                    /\ Install(r.st)
                    /\ threads' = threads \cup
                           {Thread("_execute_job", r.job, tm.path,
                                   IF r.saves THEN "save_job"
                                   ELSE "schedule_job")}
    /\ call' = [op |-> "_execute_job", req |-> NoReq, ret |-> 0]
    /\ UNCHANGED <<now, cfg, issuedLog, engineStart, seeded, seededBad,
                   skipped>>

(* create_job, lines 72-102: the request is validated, next_id is called   *)
(* (IdGenerator serializes its callers) and the job is built               *)
CreateStart(req) ==
    LET err == create_job_check(req, now, cfg)
    IN  IF err # "ok"
        THEN /\ Install(Log(Cur, Event("raise", NoJob, NoPath, 0, 0, err)))
             /\ call' = [op |-> "create_job", req |-> req, ret |-> 0]
             /\ UNCHANGED <<now, cfg, issuedLog, engineStart, seeded,
                            seededBad, skipped, threads>>
        ELSE \E id \in LeastOf(next_id(seen)) :
               LET job == SchedulingJob(id, read_schedule_config(req.schedule),
                                        req.script_name, req.execution_limit)
               IN  /\ Len(issuedLog) < MaxCreates
                   /\ Install(Log([Cur EXCEPT !.seen = @ \cup {id},
                                              !.disp[id] = 0],
                                  Event("next_id", job, NoPath, 0, 0, "")))
                   /\ threads' = threads \cup
                          {Thread("create_job", job, PathOf(job), "save_job")}
                   /\ issuedLog' = Append(issuedLog, id)
                   /\ call' = [op |-> "create_job", req |-> req, ret |-> id]
                   /\ UNCHANGED <<now, cfg, engineStart, seeded, seededBad,
                                  skipped>>

(* save_job, lines 200-202: write_file opens the file of the derived path  *)
SaveOpen(th) ==
    /\ th \in threads
    /\ th.pc = "save_job"
    /\ threads' = Move(th, "writing")
    /\ call' = [op |-> "save_job", req |-> NoReq, ret |-> 0]
    /\ trace' = <<Event("open", th.job, PathOf(th.job), 0, 0, "")>>
    /\ UNCHANGED <<now, cfg, store, timers, seen, running, disp, issuedLog,
                   engineStart, seeded, seededBad, skipped>>

(* save_job, lines 202-206: the content is written and the file closed     *)
SaveWrite(th) ==
    /\ th \in threads
    /\ th.pc = "writing"
    /\ Install(save_job(Cur, th.job))
    /\ threads' = Move(th, "schedule_job")
    /\ call' = [op |-> "save_job", req |-> NoReq, ret |-> 0]
    /\ UNCHANGED <<now, cfg, issuedLog, engineStart, seeded, seededBad,
                   skipped>>

(* lines 106 and 194: the handler's last call, schedule_job                *)
ArmNext(th) ==
    /\ th \in threads
    /\ th.pc = "schedule_job"
    /\ LET st == schedule_job(Cur, th.job, th.path, now)
       IN  /\ Install(st)
           /\ skipped' = skipped \cup SkippedIn(st.trace)
    /\ threads' = threads \ {th}
    /\ call' = [op |-> "schedule_job", req |-> NoReq, ret |-> 0]
    /\ UNCHANGED <<now, cfg, issuedLog, engineStart, seeded, seededBad>>

ThreadRequests ==
    {Request(TRUE, "a", Schedule(TRUE, 1, 1, "none", 0, FALSE), 2),
     Request(TRUE, "b", Schedule(TRUE, 1, 1, "max_executions", 2, FALSE), 1),
     Request(FALSE, "b", Schedule(TRUE, 1, 1, "none", 0, FALSE), 1)}

InitThreads == Init \/ InitFolder

NextThreads ==
    \/ \E req \in ThreadRequests : CreateStart(req)
    \/ \E tm \in timers, startOk \in BOOLEAN : FireStart(tm, startOk)
    \/ \E th \in threads : SaveOpen(th)
    \/ \E th \in threads : SaveWrite(th)
    \/ \E th \in threads : ArmNext(th)
    \/ \E failing \in {{}} : Restart(failing)
    \/ Tick

SpecThreads == InitThreads /\ [][NextThreads]_vars

----------------------------------------------------------------------------
(* Claims checked under SpecThreads *)

Writers(p) == {th \in threads : th.pc = "writing" /\ PathOf(th.job) = p}

Creating == {th \in threads : th.op = "create_job"}

(* C17: while handlers of distinct jobs and create_job calls run on        *)
(* concurrent threads, no file is open for writing in two of them at once, *)
(* and two create_job calls in progress hold different ids and write to    *)
(* different paths.                                                        *)
C17_SingleWriter ==
    /\ \A p \in Paths : Cardinality(Writers(p)) <= 1
    /\ \A t1 \in Creating, t2 \in Creating :
          t1 # t2 => t1.job.id # t2.job.id /\ PathOf(t1.job) # PathOf(t2.job)

(* C20: whenever the process stopped, at any position of any handler, and  *)
(* the service is built again on the same folder, the executions_count     *)
(* from_dict reconstructs for every repeatable job (read from the file the *)
(* engine wrote for it) equals the number of executions started for that   *)
(* job before the stop.                                                    *)
C20_CountDurable ==
    call.op = "__init__"
    => \A e \in Events :
           /\ e.type = "loaded"
           /\ e.job.schedule.repeatable
           /\ e.path = PathOf(e.job)
           => e.job.schedule.executions_count = disp[e.job.id]

====
